---------------------------- MODULE Spec2Model ----------------------------
(***************************************************************************)
(* A model of app.py: the date-extraction engine extract_date (six tiers   *)
(* tried in order), the keyword classifier classify_article, the text      *)
(* extractor, the similarity scorer and the row pipeline                   *)
(* process_dataframe.                                                      *)
(*                                                                         *)
(* Strings are TLA+ strings; a character is a string of length 1.  An HTML *)
(* document is the sequence, in document order, of its elements (no        *)
(* nesting, no text between elements).  A date is <<year, month, day>>;    *)
(* Python's None is the empty tuple.                                       *)
(***************************************************************************)
EXTENDS Integers, Sequences, FiniteSets, TLC

VARIABLES
    html,       \* extract_date: the argument (a document, or NotMarkup)
    pc,         \* extract_date: the tier about to run, "done" after return
    calls,      \* extract_date: every dateparser.parse call so far, in order
    result,     \* extract_date: the value returned (None or a date)
    escaped,    \* extract_date: an exception propagated to the caller
    text,       \* classify_article: the argument
    cpc,        \* classify_article: "idle", "call" or "done"
    label,      \* classify_article: the value returned
    web,        \* what requests.get does for each URL
    df,         \* process_dataframe: the input table, header row first
    ppc,        \* process_dataframe: "idle", "loop", "aborted" or "returned"
    htmls,      \* process_dataframe: what fetch_html returned, per row
    sims,       \* process_dataframe: what compare_headline_to_article returned
    dates,      \* process_dataframe: the list dates
    labels,     \* process_dataframe: the list labels
    df_new      \* process_dataframe: the table returned

vars == <<html, pc, calls, result, escaped, text, cpc, label,
          web, df, ppc, htmls, sims, dates, labels, df_new>>
dateVars == <<html, pc, calls, result, escaped>>
classVars == <<text, cpc, label>>
pipeVars == <<web, df, ppc, htmls, sims, dates, labels, df_new>>

---------------------------------------------------------------------------
(* Bounds of the model. *)

MaxElems == 2   \* elements of a document
MaxItems == 2   \* elements of a JSON-LD list
MaxWords == 2   \* phrases of an article text given to the classifier
MaxRows == 2    \* data rows of the input table

---------------------------------------------------------------------------
(* Characters and strings (Python str operations used by the code). *)

None == <<>>

Range(f) == {f[x] : x \in DOMAIN f}

\* F(v), with v evaluated once
Let(v, F(_)) == CHOOSE x \in {F(r) : r \in {v}} : TRUE

\* s[a-1:b] and s[i-1:i] of Python: out-of-range positions give ""
Sub(s, a, b) ==
    IF a > b \/ a > Len(s) \/ b < 1 THEN ""
    ELSE SubSeq(s, IF a < 1 THEN 1 ELSE a, IF b > Len(s) THEN Len(s) ELSE b)
Ch(s, i) == Sub(s, i, i)

LowerAlpha == "abcdefghijklmnopqrstuvwxyz"
UpperAlpha == "ABCDEFGHIJKLMNOPQRSTUVWXYZ"
DigitChars == "0123456789"

CharsOf(s) == {Ch(s, i) : i \in 1..Len(s)}
LowerSet == CharsOf(LowerAlpha)
UpperSet == CharsOf(UpperAlpha)
DigitSet == CharsOf(DigitChars)
WordSet == LowerSet \cup UpperSet \cup DigitSet \cup {"_"}

IsDigit(c) == c \in DigitSet
IsLetter(c) == c \in LowerSet \/ c \in UpperSet
IsWordCh(c) == c \in WordSet
IsSpaceCh(c) == c \in {" ", "\t", "\n"}

DigitValOf == [c \in DigitSet |-> (CHOOSE i \in 1..Len(DigitChars) : Ch(DigitChars, i) = c) - 1]
DigitVal(c) == DigitValOf[c]

\* str.lower on one character
LowerOf ==
    [c \in UpperSet |->
        Ch(LowerAlpha, CHOOSE i \in 1..Len(UpperAlpha) : Ch(UpperAlpha, i) = c)]
LowerCh(c) == IF c \in UpperSet THEN LowerOf[c] ELSE c

RECURSIVE Lower(_)
Lower(s) == IF s = "" THEN "" ELSE LowerCh(Head(s)) \o Lower(Tail(s))

\* sub in s
Contains(s, sub) ==
    \E i \in 1..(Len(s) - Len(sub) + 1) : SubSeq(s, i, i + Len(sub) - 1) = sub

\* re.compile(pat, re.I).search(s) for a pattern without metacharacters
SearchI(pat, s) == Contains(Lower(s), Lower(pat))

RECURSIVE LStrip(_)
LStrip(s) == IF s # "" /\ IsSpaceCh(Head(s)) THEN LStrip(Tail(s)) ELSE s

RECURSIVE RStrip(_)
RStrip(s) ==
    IF s # "" /\ IsSpaceCh(Ch(s, Len(s)))
    THEN RStrip(SubSeq(s, 1, Len(s) - 1))
    ELSE s

Strip(s) == RStrip(LStrip(s))

\* the number of consecutive digits (letters) of s from position i on
RECURSIVE DigitRun(_, _)
DigitRun(s, i) ==
    IF i <= Len(s) /\ IsDigit(Ch(s, i)) THEN 1 + DigitRun(s, i + 1) ELSE 0

RECURSIVE LetterRun(_, _)
LetterRun(s, i) ==
    IF i <= Len(s) /\ IsLetter(Ch(s, i)) THEN 1 + LetterRun(s, i + 1) ELSE 0

\* the value of the n digits of s from position i on
RECURSIVE NumAt(_, _, _)
NumAt(s, i, n) ==
    IF n = 0 THEN 0
    ELSE 10 * NumAt(s, i, n - 1) + DigitVal(Ch(s, i + n - 1))

---------------------------------------------------------------------------
(* The date normalizer: dateparser.parse(s, settings={'DATE_ORDER':'DMY'}) *)
(* followed by .date(), on the formats the documents of the model use:     *)
(* ISO "YYYY-MM-DD" (with an optional "T..." time part), numeric           *)
(* "D/M/YYYY" read day first, and "D Month YYYY" with the month's name or  *)
(* its three-letter abbreviation.  Everything else is unparseable.         *)

MonthAbbr == <<"jan", "feb", "mar", "apr", "may", "jun",
               "jul", "aug", "sep", "oct", "nov", "dec">>
MonthName == <<"january", "february", "march", "april", "may", "june",
               "july", "august", "september", "october", "november",
               "december">>

IsLeap(y) == (y % 4 = 0 /\ y % 100 # 0) \/ y % 400 = 0

DaysIn(m, y) ==
    IF m = 2 THEN (IF IsLeap(y) THEN 29 ELSE 28)
    ELSE IF m \in {4, 6, 9, 11} THEN 30 ELSE 31

MkDate(y, m, d) ==
    IF m \in 1..12 /\ y >= 1 /\ d >= 1 /\ d <= DaysIn(m, y)
    THEN <<y, m, d>> ELSE None

ParseIso(t) ==
    IF /\ Len(t) >= 10
       /\ DigitRun(t, 1) = 4 /\ Ch(t, 5) = "-"
       /\ DigitRun(t, 6) = 2 /\ Ch(t, 8) = "-"
       /\ DigitRun(t, 9) = 2
       /\ (Len(t) = 10 \/ Ch(t, 11) = "T")
    THEN MkDate(NumAt(t, 1, 4), NumAt(t, 6, 2), NumAt(t, 9, 2))
    ELSE None

ParseDmy(t) ==
    LET n1 == DigitRun(t, 1)
        n2 == DigitRun(t, n1 + 2)
    IN  IF /\ n1 \in {1, 2} /\ Ch(t, n1 + 1) = "/"
           /\ n2 \in {1, 2} /\ Ch(t, n1 + n2 + 2) = "/"
           /\ DigitRun(t, n1 + n2 + 3) = 4
           /\ Len(t) = n1 + n2 + 6
        THEN MkDate(NumAt(t, n1 + n2 + 3, 4), NumAt(t, n1 + 2, n2), NumAt(t, 1, n1))
        ELSE None

ParseNamed(t) ==
    LET n1 == DigitRun(t, 1)
        k == LetterRun(t, n1 + 2)
        w == Lower(Sub(t, n1 + 2, n1 + 1 + k))
    IN  IF /\ n1 \in {1, 2} /\ Ch(t, n1 + 1) = " "
           /\ \E m \in 1..12 : w = MonthAbbr[m] \/ w = MonthName[m]
           /\ Ch(t, n1 + k + 2) = " "
           /\ DigitRun(t, n1 + k + 3) = 4
           /\ Len(t) = n1 + k + 6
        THEN MkDate(NumAt(t, n1 + k + 3, 4),
                    CHOOSE m \in 1..12 : w = MonthAbbr[m] \/ w = MonthName[m],
                    NumAt(t, 1, n1))
        ELSE None

ParseStripped(t) ==
    Let(ParseIso(t), LAMBDA iso :
        IF iso # None THEN iso
        ELSE Let(ParseDmy(t), LAMBDA dmy :
                 IF dmy # None THEN dmy ELSE ParseNamed(t)))

Parse(s) == Let(Strip(s), LAMBDA t : ParseStripped(t))

\* date.strftime("%d/%m/%Y")
DigitStr(n) == Ch(DigitChars, n + 1)
Two(n) == DigitStr(n \div 10) \o DigitStr(n % 10)
Four(n) == Two(n \div 100) \o Two(n % 100)
Strftime(d) == Two(d[3]) \o "/" \o Two(d[2]) \o "/" \o Four(d[1])

---------------------------------------------------------------------------
(* Documents.  An element is a record; the fields a tag does not use are   *)
(* empty.  key is the (attribute, value) pair a meta tag is found by, or a *)
(* script's type; has/s are a meta tag's content attribute or a time tag's *)
(* datetime attribute; cls and id are the class and id attributes; text is *)
(* the element's own text; json describes a script's string.               *)

NoJson == [k |-> "none", items |-> <<>>]

Meta(key, has, content) ==
    [tag |-> "meta", key |-> key, has |-> has, s |-> content,
     cls |-> "", id |-> "", text |-> "", json |-> NoJson]
TimeTag(has, datetime, txt) ==
    [tag |-> "time", key |-> "", has |-> has, s |-> datetime,
     cls |-> "", id |-> "", text |-> txt, json |-> NoJson]
Block(tagname, class, ident, txt) ==
    [tag |-> tagname, key |-> "", has |-> FALSE, s |-> "",
     cls |-> class, id |-> ident, text |-> txt, json |-> NoJson]
Script(type, data) ==
    [tag |-> "script", key |-> type, has |-> FALSE, s |-> "",
     cls |-> "", id |-> "", text |-> "", json |-> data]

(* A script's string.  k says what json.loads makes of it: "malformed" (it *)
(* raises), "dict", "list", "scalar" (a string, a number, null), "graph"   *)
(* (a dict whose dates sit in nested objects only), or "js" for a script   *)
(* that is no JSON-LD.  items are the JSON values the string spells out,   *)
(* in textual order: the dict itself, the elements of the list, the nested *)
(* objects.  An item is an object (obj) with the values of its             *)
(* datePublished (dp) and dateCreated (dc) keys, or no object at all.      *)
(* A value is absent, null, a string, or a non-zero number.                *)

JAbsent == [t |-> "absent", s |-> ""]
JNull == [t |-> "null", s |-> ""]
JStr(s) == [t |-> "str", s |-> s]
JNum == [t |-> "num", s |-> ""]
Obj(dp, dc) == [obj |-> TRUE, dp |-> dp, dc |-> dc]
NonObj == [obj |-> FALSE, dp |-> JAbsent, dc |-> JAbsent]
Json(k, items) == [k |-> k, items |-> items]

LdJson == "application/ld+json"

\* Python truthiness of a JSON value
Truthy(v) == (v.t = "str" /\ v.s # "") \/ v.t = "num"

\* a.get('datePublished') or a.get('dateCreated')
DateStrOf(item) == IF Truthy(item.dp) THEN item.dp ELSE item.dc

\* soup.find: the index of the first element satisfying P, 0 when there is none
FindFirst(doc, P(_)) ==
    IF \E i \in 1..Len(doc) : P(doc[i])
    THEN CHOOSE i \in 1..Len(doc) :
            P(doc[i]) /\ \A j \in 1..(i - 1) : ~P(doc[j])
    ELSE 0

\* soup.find_all: the elements satisfying P, in document order
FindAll(doc, P(_)) == SelectSeq(doc, P)

\* tag.get_text(strip=True) of an element without children
GetTextStrip(el) == Strip(el.text)

\* soup.get_text(separator=' '): the text nodes of the document, joined by
\* one space (a script's string is no text node of get_text)
RECURSIVE GetText(_)
GetText(doc) ==
    IF doc = <<>> THEN ""
    ELSE LET rest == GetText(Tail(doc))
             t == Head(doc).text
         IN  IF t = "" THEN rest
             ELSE IF rest = "" THEN t
             ELSE t \o " " \o rest

---------------------------------------------------------------------------
(* extract_date.  A tier returns the dateparser.parse calls it made, in    *)
(* order, the date it returns (None when it falls through) and whether an  *)
(* exception left it.                                                      *)

Ret(log, date, raised) == [calls |-> log, date |-> date, raised |-> raised]

\* one dateparser.parse call: the tier making it and its argument
Call(tier, v) == [tier |-> tier, str |-> v.t = "str", s |-> v.s]

\* 1. Meta tags
MetaKeys == <<"property=article:published_time", "name=pubdate",
              "name=date", "itemprop=datePublished">>

\* a variant that lets the first tag with non-empty content decide the tier
RECURSIVE MetaLoopFirstHit(_, _, _)
MetaLoopFirstHit(doc, k, log) ==
    IF k > Len(MetaKeys) THEN Ret(log, None, FALSE)
    ELSE Let(FindFirst(doc, LAMBDA e : e.tag = "meta" /\ e.key = MetaKeys[k]), LAMBDA i :
             IF i # 0 /\ doc[i].has /\ doc[i].s # ""
             THEN Ret(Append(log, Call("meta", JStr(doc[i].s))), Parse(doc[i].s), FALSE)
             ELSE MetaLoopFirstHit(doc, k + 1, log))

RECURSIVE MetaLoop(_, _, _)
MetaLoop(doc, k, log) ==
    IF k > Len(MetaKeys) THEN Ret(log, None, FALSE)
    ELSE Let(FindFirst(doc, LAMBDA e : e.tag = "meta" /\ e.key = MetaKeys[k]), LAMBDA i :
             IF i # 0 /\ doc[i].has /\ doc[i].s # ""
             THEN Let(Parse(doc[i].s), LAMBDA parsed :
                      Let(Append(log, Call("meta", JStr(doc[i].s))), LAMBDA log2 :
                          IF parsed # None THEN Ret(log2, parsed, FALSE)
                          ELSE MetaLoop(doc, k + 1, log2)))
             ELSE MetaLoop(doc, k + 1, log))

MetaTier(doc) == MetaLoop(doc, 1, <<>>)

\* 2. JSON-LD: the body of "if isinstance(data, dict)" and of "for item in
\* data" on one value.  stop: the date is returned or an exception is
\* raised (item.get on a value that is no dict, dateparser.parse on a
\* value that is no str).
ItemTry(item, log) ==
    IF ~item.obj THEN Ret(log, None, TRUE)
    ELSE LET date_str == DateStrOf(item)
         IN  IF ~Truthy(date_str) THEN Ret(log, None, FALSE)
             ELSE IF date_str.t # "str"
             THEN Ret(Append(log, Call("jsonld", date_str)), None, TRUE)
             ELSE Ret(Append(log, Call("jsonld", date_str)), Parse(date_str.s), FALSE)

RECURSIVE ItemLoop(_, _, _)
ItemLoop(items, j, log) ==
    IF j > Len(items) THEN Ret(log, None, FALSE)
    ELSE Let(ItemTry(items[j], log), LAMBDA r :
             IF r.raised \/ r.date # None THEN r
             ELSE ItemLoop(items, j + 1, r.calls))

\* the try block of one script tag
BlockTry(data, log) ==
    CASE data.k = "malformed" -> Ret(log, None, TRUE)
      [] data.k = "dict" -> ItemTry(data.items[1], log)
      [] data.k = "list" -> ItemLoop(data.items, 1, log)
      [] OTHER -> Ret(log, None, FALSE)

\* "except: continue" swallows what a block raises
RECURSIVE JsonLdLoop(_, _, _)
JsonLdLoop(tags, i, log) ==
    IF i > Len(tags) THEN Ret(log, None, FALSE)
    ELSE Let(BlockTry(tags[i].json, log), LAMBDA r :
             IF ~r.raised /\ r.date # None THEN r
             ELSE JsonLdLoop(tags, i + 1, r.calls))

JsonLdTier(doc) ==
    JsonLdLoop(FindAll(doc, LAMBDA e : e.tag = "script" /\ e.key = LdJson), 1, <<>>)

\* 3. <time> tag
TimeTier(doc) ==
    Let(FindFirst(doc, LAMBDA e : e.tag = "time"), LAMBDA i :
        IF i = 0 THEN Ret(<<>>, None, FALSE)
        ELSE Let(IF doc[i].has /\ doc[i].s # "" THEN doc[i].s
                 ELSE GetTextStrip(doc[i]), LAMBDA date_str :
                 IF date_str = "" THEN Ret(<<>>, None, FALSE)
                 ELSE Ret(<<Call("time", JStr(date_str))>>, Parse(date_str), FALSE)))

\* 4. Common class/id based selectors
Selectors == <<"date", "published", "pubdate", "post-date", "article-date">>

\* a variant that takes the first element matching on class or on id
SelFindEither(doc, sel) ==
    FindFirst(doc, LAMBDA e : SearchI(sel, e.cls) \/ SearchI(sel, e.id))

\* the element the loop body finds for one selector, 0 when there is none
SelFind(doc, sel) ==
    Let(FindFirst(doc, LAMBDA e : SearchI(sel, e.cls)), LAMBDA c :
        IF c # 0 THEN c ELSE FindFirst(doc, LAMBDA e : SearchI(sel, e.id)))

RECURSIVE SelLoop(_, _, _)
SelLoop(doc, k, log) ==
    IF k > Len(Selectors) THEN Ret(log, None, FALSE)
    ELSE Let(SelFind(doc, Selectors[k]), LAMBDA i :
             IF i = 0 THEN SelLoop(doc, k + 1, log)
             ELSE Let(GetTextStrip(doc[i]), LAMBDA cand :
                  Let(Parse(cand), LAMBDA parsed :
                  Let(Append(log, Call("attr", JStr(cand))), LAMBDA log2 :
                      IF parsed # None THEN Ret(log2, parsed, FALSE)
                      ELSE SelLoop(doc, k + 1, log2)))))

AttrTier(doc) == SelLoop(doc, 1, <<>>)

\* 5. JavaScript-embedded date: re.findall on a script's string gives the
\* non-empty string values written after a datePublished key, in textual
\* order (a dateCreated key is not searched for).
RECURSIVE Found(_)
Found(items) ==
    IF items = <<>> THEN <<>>
    ELSE (IF Head(items).obj /\ Head(items).dp.t = "str" /\ Head(items).dp.s # ""
          THEN <<Head(items).dp.s>> ELSE <<>>) \o Found(Tail(items))

RECURSIVE FoundLoop(_, _, _)
FoundLoop(found, j, log) ==
    IF j > Len(found) THEN Ret(log, None, FALSE)
    ELSE Let(Parse(found[j]), LAMBDA parsed :
         Let(Append(log, Call("script", JStr(found[j]))), LAMBDA log2 :
             IF parsed # None THEN Ret(log2, parsed, FALSE)
             ELSE FoundLoop(found, j + 1, log2)))

RECURSIVE ScriptLoop(_, _, _)
ScriptLoop(scripts, i, log) ==
    IF i > Len(scripts) THEN Ret(log, None, FALSE)
    ELSE Let(FoundLoop(Found(scripts[i].json.items), 1, log), LAMBDA r :
             IF r.date # None THEN r ELSE ScriptLoop(scripts, i + 1, r.calls))

ScriptTier(doc) == ScriptLoop(FindAll(doc, LAMBDA e : e.tag = "script"), 1, <<>>)

\* a variant of the pattern without its leading \b
MatchEndNoBoundary(t, i) ==
    Let(DigitRun(t, i), LAMBDA n :
        IF /\ n \in {1, 2}
           /\ IsSpaceCh(Ch(t, i + n))
           /\ Lower(Sub(t, i + n + 1, i + n + 3)) \in Range(MonthAbbr)
        THEN Let(i + n + LetterRun(t, i + n + 4) + 5, LAMBDA y :
                 IF /\ IsSpaceCh(Ch(t, y - 1))
                    /\ DigitRun(t, y) = 4
                    /\ (y + 4 > Len(t) \/ ~IsWordCh(Ch(t, y + 4)))
                 THEN y + 4
                 ELSE 0)
        ELSE 0)

\* 6. Fallback.  The pattern
\*   \b\d{1,2}\s(?:Jan|...|Dec)[a-z]*\s\d{4}\b   with re.IGNORECASE
\* tried at position i of t: the position after the match, 0 when it fails.
MatchEnd(t, i) ==
    IF i > 1 /\ IsWordCh(Ch(t, i - 1)) THEN 0
    ELSE Let(DigitRun(t, i), LAMBDA n :
         IF /\ n \in {1, 2}
            /\ IsSpaceCh(Ch(t, i + n))
            /\ Lower(Sub(t, i + n + 1, i + n + 3)) \in Range(MonthAbbr)
         THEN Let(i + n + LetterRun(t, i + n + 4) + 5, LAMBDA y :
                  IF /\ IsSpaceCh(Ch(t, y - 1))
                     /\ DigitRun(t, y) = 4
                     /\ (y + 4 > Len(t) \/ ~IsWordCh(Ch(t, y + 4)))
                  THEN y + 4
                  ELSE 0)
         ELSE 0)

\* re.search(...).group(): the leftmost match, "" when there is none
FreeTextSearch(t) ==
    Let({i \in 1..Len(t) : MatchEnd(t, i) # 0}, LAMBDA starts :
        IF starts = {} THEN ""
        ELSE Let(CHOOSE i \in starts : \A j \in starts : i <= j, LAMBDA i :
                 Sub(t, i, MatchEnd(t, i) - 1)))

TextTier(doc) ==
    Let(FreeTextSearch(GetText(doc)), LAMBDA match :
        IF match = "" THEN Ret(<<>>, None, FALSE)
        ELSE Ret(<<Call("text", JStr(match))>>, Parse(match), FALSE))

\* a variant with the time tag read before the JSON-LD blocks
TierOrderTimeFirst == <<"meta", "time", "jsonld", "attr", "script", "text">>

\* the order of the tiers in the body of extract_date
TierOrder == <<"meta", "jsonld", "time", "attr", "script", "text">>

TierResult(name, doc) ==
    CASE name = "meta" -> MetaTier(doc)
      [] name = "jsonld" -> JsonLdTier(doc)
      [] name = "time" -> TimeTier(doc)
      [] name = "attr" -> AttrTier(doc)
      [] name = "script" -> ScriptTier(doc)
      [] name = "text" -> TextTier(doc)

TierIndex(name) == CHOOSE k \in 1..Len(TierOrder) : TierOrder[k] = name

\* where control goes after a tier has fallen through
AfterTier(name) ==
    IF TierIndex(name) = Len(TierOrder) THEN "done"
    ELSE TierOrder[TierIndex(name) + 1]

\* a variant without the outer handler: the exception reaches the caller
OuterExceptMissing == [result |-> None, escaped |-> TRUE]

\* "except Exception as e: print(...)" and "return None": what the caller
\* of extract_date sees when an exception reaches the outer handler
OuterExcept == [result |-> None, escaped |-> FALSE]

\* extract_date as a function of its argument.  The argument is
\* [str |-> is it a str, doc |-> the document BeautifulSoup makes of it].
RECURSIVE RunTiers(_, _)
RunTiers(doc, k) ==
    IF k > Len(TierOrder) THEN None
    ELSE Let(TierResult(TierOrder[k], doc), LAMBDA r :
             IF r.raised THEN OuterExcept.result
             ELSE IF r.date # None THEN r.date
             ELSE RunTiers(doc, k + 1))

extract_date(h) == IF ~h.str THEN OuterExcept.result ELSE RunTiers(h.doc, 1)

Markup(doc) == [str |-> TRUE, doc |-> doc]
NotMarkup == [str |-> FALSE, doc |-> <<>>]

---------------------------------------------------------------------------
(* classify_article *)

IndiaWords == <<"positive", "success", "support", "development">>
ChinaWords == <<"sanction", "tariff", "ban", "conflict", "tension">>
PakistanWords == <<"polio", "terror", "crisis", "restriction", "attack">>

\* any(word in t for word in words)
AnyIn(words, t) == \E k \in 1..Len(words) : Contains(t, words[k])

\* a variant that tries the China rule first
classify_article_ChinaFirst(txt) ==
    Let(Lower(txt), LAMBDA t :
        IF Contains(t, "china") /\ AnyIn(ChinaWords, t) THEN "Anti-China"
        ELSE IF Contains(t, "india") /\ AnyIn(IndiaWords, t) THEN "Pro-India"
        ELSE IF Contains(t, "pakistan") /\ AnyIn(PakistanWords, t) THEN "Anti-Pakistan"
        ELSE "Miscellaneous")

classify_article(txt) ==
    Let(Lower(txt), LAMBDA t :
        IF Contains(t, "india") /\ AnyIn(IndiaWords, t) THEN "Pro-India"
        ELSE IF Contains(t, "china") /\ AnyIn(ChinaWords, t) THEN "Anti-China"
        ELSE IF Contains(t, "pakistan") /\ AnyIn(PakistanWords, t) THEN "Anti-Pakistan"
        ELSE "Miscellaneous")

---------------------------------------------------------------------------
(* fetch_html, extract_article_text, compare_headline_to_article.  Each    *)
(* returns its value and whether an exception left it.                     *)

\* a variant without the try block: what requests.get raises leaves it
fetch_html_NoTry(resp) ==
    IF resp.raises THEN [raised |-> TRUE, html |-> Markup(<<>>)]
    ELSE [raised |-> FALSE, html |-> resp.body]

\* What requests.get does for a URL: it raises (time-out, transport error,
\* HTTP error status) or answers with a body.  fetch_html turns the first
\* into "".
fetch_html(resp) ==
    IF resp.raises THEN [raised |-> FALSE, html |-> Markup(<<>>)]
    ELSE [raised |-> FALSE, html |-> resp.body]

\* ' '.join(strs)
RECURSIVE JoinSp(_)
JoinSp(strs) ==
    IF strs = <<>> THEN ""
    ELSE IF Len(strs) = 1 THEN strs[1]
    ELSE strs[1] \o " " \o JoinSp(Tail(strs))

\* [p.get_text() for p in paragraphs]
RECURSIVE Texts(_)
Texts(els) == IF els = <<>> THEN <<>> ELSE <<Head(els).text>> \o Texts(Tail(els))

extract_article_text(h) ==
    IF ~h.str THEN [raised |-> FALSE, text |-> ""]
    ELSE [raised |-> FALSE,
          text |-> Strip(JoinSp(Texts(FindAll(h.doc, LAMBDA e : e.tag = "p"))))]

\* TfidfVectorizer's tokens: the lower-cased runs of word characters of
\* length two and more.  TokenStarts are the positions where one begins;
\* Tokens maps every term to the number of times it occurs.
RECURSIVE WordRun(_, _)
WordRun(s, i) ==
    IF i <= Len(s) /\ IsWordCh(Ch(s, i)) THEN 1 + WordRun(s, i + 1) ELSE 0

TokenStarts(s) ==
    {i \in 1..Len(s) :
        /\ IsWordCh(Ch(s, i))
        /\ (i = 1 \/ ~IsWordCh(Ch(s, i - 1)))
        /\ WordRun(s, i) >= 2}

TokenAt(s, i) == SubSeq(s, i, i + WordRun(s, i) - 1)

TermCounts(t) ==
    Let(TokenStarts(t), LAMBDA st :
        [w \in {TokenAt(t, i) : i \in st} |->
            Cardinality({i \in st : TokenAt(t, i) = w})])

Tokens(s) == Let(Lower(s), LAMBDA t : TermCounts(t))

\* The cosine of the two tf-idf rows, as far as the model tells scores
\* apart: "0" (no common term), "1" (the same terms in the same
\* proportions) or "between".  An empty vocabulary makes fit_transform
\* raise, and the except clause returns 0.
Cosine(h, a) ==
    IF DOMAIN h = {} /\ DOMAIN a = {} THEN [raised |-> FALSE, score |-> "0"]
    ELSE IF DOMAIN h \cap DOMAIN a = {} THEN [raised |-> FALSE, score |-> "0"]
    ELSE IF /\ DOMAIN h = DOMAIN a
            /\ \A v, w \in DOMAIN h : h[v] * a[w] = h[w] * a[v]
         THEN [raised |-> FALSE, score |-> "1"]
    ELSE [raised |-> FALSE, score |-> "between"]

compare_headline_to_article(headline, article) ==
    Let(Tokens(headline), LAMBDA h : Let(Tokens(article), LAMBDA a : Cosine(h, a)))

---------------------------------------------------------------------------
(* process_dataframe.  A table is the sequence of its rows, a row the      *)
(* sequence of its cells; row 1 is the header row, column 2 the headline,  *)
(* column 3 the link.                                                      *)

\* a variant that labels a row only when the headline matches the article
RowResultGated(headline, resp) ==
    Let(fetch_html(resp), LAMBDA f :
    Let(extract_article_text(f.html), LAMBDA art :
    Let(compare_headline_to_article(headline, art.text), LAMBDA sim :
    Let(extract_date(f.html), LAMBDA date :
        [raised |-> f.raised \/ art.raised \/ sim.raised,
         html |-> f.html,
         sim |-> sim.score,
         date |-> IF date # None THEN Strftime(date) ELSE "",
         label |-> IF sim.score = "0" THEN "Miscellaneous"
                   ELSE classify_article(art.text)]))))

\* the body of the loop over zip(headlines, links) for one row, resp being
\* what requests.get does for the row's link
RowResult(headline, resp) ==
    Let(fetch_html(resp), LAMBDA f :
    Let(extract_article_text(f.html), LAMBDA art :
    Let(compare_headline_to_article(headline, art.text), LAMBDA sim :
    Let(extract_date(f.html), LAMBDA date :
        [raised |-> f.raised \/ art.raised \/ sim.raised,
         html |-> f.html,
         sim |-> sim.score,
         date |-> IF date # None THEN Strftime(date) ELSE "",
         label |-> classify_article(art.text)]))))

\* a variant that writes the results from the last to the first
WriteOutputReversed(table, ds, ls) ==
    [r \in 1..Len(table) |->
        IF r = 1 THEN table[r] \o <<"Extracted Date", "Classification">>
        ELSE table[r] \o <<ds[Len(ds) - r + 2], ls[Len(ls) - r + 2]>>]

\* df_new as returned: the two header cells appended to row 0, dates[i-1]
\* and labels[i-1] appended to row i
WriteOutput(table, ds, ls) ==
    [r \in 1..Len(table) |->
        IF r = 1 THEN table[r] \o <<"Extracted Date", "Classification">>
        ELSE table[r] \o <<ds[r - 1], ls[r - 1]>>]

---------------------------------------------------------------------------
(* The inputs of the model. *)

SeqsUpTo(S, n) == UNION {[1..k -> S] : k \in 0..n}

Unparseable == "TBA"

\* meta tags only: every key, with the content attribute absent, empty,
\* blank, unparseable, or a date of the key's own
MetaDate == <<"2024-12-01", "02/12/2024", "3 Dec 2024", "2024-12-04T09:30:00Z">>
MetaElems ==
    {Meta(MetaKeys[k], FALSE, "") : k \in 1..Len(MetaKeys)}
    \cup {Meta(MetaKeys[k], TRUE, c) : k \in 1..Len(MetaKeys), c \in {"", "  ", Unparseable}}
    \cup {Meta(MetaKeys[k], TRUE, MetaDate[k]) : k \in 1..Len(MetaKeys)}
MetaDocs == SeqsUpTo(MetaElems, MaxElems)

\* one JSON-LD block, alone or followed by a second block or a time tag
JsonItems ==
    {Obj(JAbsent, JAbsent), Obj(JStr("2024-12-05"), JAbsent),
     Obj(JAbsent, JStr("6/12/2024")), Obj(JStr(Unparseable), JStr("2024-12-07")),
     Obj(JStr(Unparseable), JAbsent), Obj(JNum, JStr("2024-12-08")), NonObj}
JsonBlocks ==
    {Json("list", l) : l \in SeqsUpTo(JsonItems, MaxItems)}
    \cup {Json("dict", <<o>>) : o \in JsonItems \ {NonObj}}
    \cup {Json("malformed", <<>>), Json("malformed", <<Obj(JStr("2024-12-20"), JAbsent)>>),
          Json("scalar", <<>>), Json("graph", <<Obj(JStr("2024-12-21"), JAbsent)>>)}
JsonFollowers ==
    {<<>>, <<Script(LdJson, Json("dict", <<Obj(JAbsent, JStr("22 Dec 2024"))>>))>>,
     <<TimeTag(TRUE, "2024-12-09T08:00:00", "")>>}
JsonDocs == {<<Script(LdJson, b)>> \o f : b \in JsonBlocks, f \in JsonFollowers}

\* elements carrying class and id attributes
AttrElems ==
    {Block("div", c, i, t) : c \in {"", "post-date", "Published"},
                             i \in {"", "pubDate"},
                             t \in {"10 Dec 2024", "11/12/2024", Unparseable}}
AttrDocs == SeqsUpTo(AttrElems, MaxElems)

\* paragraphs of visible text
TextElems ==
    {Block("p", "", "", t) :
        t \in {"15", "Dec 2024", "on 16 december 2024.", "17/12/2024", "2024",
               "18  Dec 2024", "x19 Jan 2024"}}
TextDocs == SeqsUpTo(TextElems, MaxElems)

\* one element a tier reads, for every tier, with a date and without
MixedElems ==
    {Meta(MetaKeys[1], TRUE, "2024-12-01"), Meta(MetaKeys[1], TRUE, Unparseable),
     Script(LdJson, Json("dict", <<Obj(JStr("2024-12-05"), JAbsent)>>)),
     Script(LdJson, Json("malformed", <<>>)),
     TimeTag(TRUE, "2024-12-09T08:00:00", "13 Dec 2024"), TimeTag(FALSE, "", Unparseable),
     Block("span", "date", "", "10 Dec 2024"), Block("span", "date", "", Unparseable),
     Script("", Json("js", <<Obj(JStr("2024-12-12"), JAbsent)>>)),
     Script("", Json("js", <<Obj(JStr(Unparseable), JAbsent)>>)),
     Block("p", "", "", "14 Dec 2024"), Block("p", "", "", "15/12/2024")}
MixedDocs == SeqsUpTo(MixedElems, MaxElems)

Docs == MetaDocs \cup JsonDocs \cup AttrDocs \cup TextDocs \cup MixedDocs

\* article texts: phrases joined by single spaces
Phrases ==
    {"India sees strong economic success this year",
     "China faces new tariff sanctions",
     "Pakistan hit by terror attack near border",
     "Unrelated local weather report",
     "INDIA", "Indiana", "china", "Pakistan",
     "positive", "Success", "unsupported", "development",
     "sanction", "tariff", "banana", "conflict", "tension",
     "polio", "terror", "crisis", "restriction", "attack"}
ClassTexts == {JoinSp(l) : l \in SeqsUpTo(Phrases, MaxWords)}

\* the web: what requests.get does for a URL
Links == {"http://a.example/1", "http://b.example/2"}
Responses ==
    {[raises |-> TRUE, body |-> Markup(<<>>)],
     [raises |-> FALSE,
      body |-> Markup(<<Meta(MetaKeys[1], TRUE, "2024-12-01"),
                        Block("p", "", "", "India sees strong economic success this year")>>)],
     [raises |-> FALSE,
      body |-> Markup(<<Block("p", "", "", "China faces new tariff sanctions"),
                        Block("p", "", "", "Posted on 16 Dec 2024")>>)],
     [raises |-> FALSE,
      body |-> Markup(<<Block("h1", "", "", "Pakistan hit by terror attack"),
                        Block("p", "", "", "Unrelated local weather report")>>)]}
Headlines == {"India sees success", "Unrelated local weather report", ""}
HeaderRow == <<"S.No", "Headline", "Link">>
Tables ==
    {<<HeaderRow>> \o l :
        l \in SeqsUpTo({<<"1", h, u>> : h \in Headlines, u \in Links}, MaxRows)}

---------------------------------------------------------------------------
(* The three programs: one call of extract_date, one call of               *)
(* classify_article, one call of process_dataframe.                        *)

DateIdle ==
    /\ html = NotMarkup /\ pc = "idle" /\ calls = <<>> /\ result = None
    /\ escaped = FALSE
ClassIdle == text = "" /\ cpc = "idle" /\ label = ""
PipeIdle ==
    /\ web = [u \in Links |-> [raises |-> TRUE, body |-> Markup(<<>>)]]
    /\ df = <<>> /\ ppc = "idle" /\ htmls = <<>> /\ sims = <<>>
    /\ dates = <<>> /\ labels = <<>> /\ df_new = <<>>

InitDate ==
    /\ html \in {Markup(d) : d \in Docs} \cup {NotMarkup}
    /\ pc = "soup" /\ calls = <<>> /\ result = None /\ escaped = FALSE
    /\ ClassIdle /\ PipeIdle

InitClass ==
    /\ text \in ClassTexts /\ cpc = "call" /\ label = ""
    /\ DateIdle /\ PipeIdle

InitPipe ==
    /\ web \in [Links -> Responses]
    /\ df \in Tables
    /\ ppc = "loop" /\ htmls = <<>> /\ sims = <<>>
    /\ dates = <<>> /\ labels = <<>> /\ df_new = <<>>
    /\ DateIdle /\ ClassIdle

\* soup = BeautifulSoup(html, 'html.parser'): raises on what is no str
MakeSoup ==
    /\ pc = "soup"
    /\ IF html.str
       THEN pc' = TierOrder[1] /\ UNCHANGED <<result, escaped>>
       ELSE /\ pc' = "done"
            /\ result' = OuterExcept.result
            /\ escaped' = OuterExcept.escaped
    /\ UNCHANGED <<html, calls, classVars, pipeVars>>

\* one tier of extract_date: it returns its date, falls through to the
\* next tier, or (after the last) to "return None"
Tier(name) ==
    /\ pc = name
    /\ \E r \in {TierResult(name, html.doc)} :
           /\ calls' = calls \o r.calls
           /\ IF r.raised
              THEN /\ pc' = "done"
                   /\ result' = OuterExcept.result
                   /\ escaped' = OuterExcept.escaped
              ELSE IF r.date # None
              THEN pc' = "done" /\ result' = r.date /\ UNCHANGED escaped
              ELSE pc' = AfterTier(name) /\ UNCHANGED <<result, escaped>>
    /\ UNCHANGED <<html, classVars, pipeVars>>

TierMeta == Tier("meta")
TierJsonLd == Tier("jsonld")
TierTime == Tier("time")
TierAttr == Tier("attr")
TierScript == Tier("script")
TierText == Tier("text")

Classify ==
    /\ cpc = "call"
    /\ label' = classify_article(text)
    /\ cpc' = "done"
    /\ UNCHANGED <<text, dateVars, pipeVars>>

\* one iteration of the loop of process_dataframe
ProcessRow ==
    /\ ppc = "loop"
    /\ Len(dates) < Len(df) - 1
    /\ \E r \in {RowResult(df[Len(dates) + 2][2], web[df[Len(dates) + 2][3]])} :
           IF r.raised
           THEN /\ ppc' = "aborted"
                /\ UNCHANGED <<htmls, sims, dates, labels>>
           ELSE /\ htmls' = Append(htmls, r.html)
                /\ sims' = Append(sims, r.sim)
                /\ dates' = Append(dates, r.date)
                /\ labels' = Append(labels, r.label)
                /\ UNCHANGED ppc
    /\ UNCHANGED <<web, df, df_new, dateVars, classVars>>

\* the loop is over: df_new is built and returned
Return ==
    /\ ppc = "loop"
    /\ Len(dates) = Len(df) - 1
    /\ df_new' = WriteOutput(df, dates, labels)
    /\ ppc' = "returned"
    /\ UNCHANGED <<web, df, htmls, sims, dates, labels, dateVars, classVars>>

NextDate ==
    \/ MakeSoup \/ TierMeta \/ TierJsonLd \/ TierTime
    \/ TierAttr \/ TierScript \/ TierText
NextClass == Classify
NextPipe == ProcessRow \/ Return

SpecDate == InitDate /\ [][NextDate]_vars
SpecClass == InitClass /\ [][NextClass]_vars
SpecPipe == InitPipe /\ [][NextPipe]_vars

Init == InitDate \/ InitClass \/ InitPipe
Next == NextDate \/ NextClass \/ NextPipe
Spec == Init /\ [][Next]_vars

---------------------------------------------------------------------------
(* Properties of extract_date, checked under SpecDate. *)

Tiers == {"meta", "jsonld", "time", "attr", "script", "text"}

\* the rank of a strategy in the order the specification gives
Rank(t) ==
    CASE t = "meta" -> 1 [] t = "jsonld" -> 2 [] t = "time" -> 3
      [] t = "attr" -> 4 [] t = "script" -> 5 [] t = "text" -> 6
      [] OTHER -> 7

\* the normalizer parsed the argument of call c
Parsed(c) == c.str /\ Parse(c.s) # None

CallsOf(t) == SelectSeq(calls, LAMBDA c : c.tier = t)

Done == pc = "done" /\ html.str

\* the strategy that produced the last call, 7 when there is no call
LastRank == IF calls = <<>> THEN 7 ELSE Rank(calls[Len(calls)].tier)

\* the first meta published-time tag of the document, 0 when there is none
PublishedTime(doc) ==
    FindFirst(doc, LAMBDA e : e.tag = "meta" /\ e.key = "property=article:published_time")

(* C1: the strategies run in the order meta, JSON-LD, time, class/id,      *)
(* script, free text; the date returned is the normalized candidate of the *)
(* first call the normalizer parses; every call before it failed and no    *)
(* call follows it; every strategy before the winning one was run; and a   *)
(* parseable meta published-time tag decides the result whatever else the  *)
(* document holds.                                                         *)
C1_FirstSuccessWins ==
    /\ \A a, b \in 1..Len(calls) :
           a < b => Rank(calls[a].tier) <= Rank(calls[b].tier)
    /\ \A a \in 1..(Len(calls) - 1) : ~Parsed(calls[a])
    /\ pc \in Tiers => \A a \in 1..Len(calls) : Rank(calls[a].tier) < Rank(pc)
    /\ Done =>
         /\ (result # None) <=> (calls # <<>> /\ Parsed(calls[Len(calls)]))
         /\ result # None => result = Parse(calls[Len(calls)].s)
         /\ \A t \in Tiers :
                Rank(t) < (IF result # None THEN LastRank ELSE 7)
                    => CallsOf(t) = TierResult(t, html.doc).calls
         /\ LET i == PublishedTime(html.doc)
            IN  (i # 0 /\ html.doc[i].has /\ Parse(html.doc[i].s) # None)
                    => result = Parse(html.doc[i].s)

\* a meta tag failed, the time tag won, and the visible text holds another
\* date that was never looked at
C1_Witness ==
    /\ Done /\ result # None
    /\ Len(calls) = 2 /\ calls[1].tier = "meta" /\ calls[2].tier = "time"
    /\ TextTier(html.doc).date \notin {None, result}

IsDate(d) == Len(d) = 3 /\ d[1] \in Nat /\ d[2] \in 1..12 /\ d[3] \in 1..31

\* the position of the call: 0 before BeautifulSoup, 1..6 in the tiers, 7
\* after the return
PcRank(p) == IF p = "soup" THEN 0 ELSE Rank(p)

C2_Safe ==
    /\ ~escaped
    /\ pc \in {"soup", "done"} \cup Tiers
    /\ pc = "done" => (result = None \/ IsDate(result))
    /\ pc = "done" /\ ~html.str => result = None
    /\ (Done /\ \A a \in 1..Len(calls) : ~Parsed(calls[a])) =>
         /\ result = None
         /\ \A t \in Tiers : CallsOf(t) = TierResult(t, html.doc).calls

(* C2: extract_date never raises and always returns: no exception reaches  *)
(* the caller; the call is always at BeautifulSoup, in a tier (each of     *)
(* which can always take its step) or returned, and every step moves it    *)
(* forward; the value returned is a date or None; it is None when no       *)
(* candidate parsed, and then every strategy has offered all its           *)
(* candidates (a failed normalization sends the engine on to the next      *)
(* tier).                                                                  *)
C2_NeverRaises == []C2_Safe /\ [][PcRank(pc') > PcRank(pc)]_vars

\* a document with a malformed JSON-LD payload whose meta tag and class
\* element both fail to normalize: the result is None after two tiers failed
C2_Witness ==
    /\ Done /\ result = None
    /\ \E i \in 1..Len(html.doc) : html.doc[i].json.k = "malformed"
    /\ \E a \in 1..Len(calls) : ~Parsed(calls[a])

\* tier t has run: the call is past it and no earlier tier returned a date
Ran(t) ==
    /\ html.str /\ PcRank(pc) > Rank(t) /\ pc # "idle"
    /\ pc = "done" => (result = None \/ LastRank >= Rank(t))

(* What a loop that offers candidates 1..n in order, and returns the first *)
(* one the normalizer parses, leaves behind: cs, the calls it made, are    *)
(* the contents of the offered candidates up to and including the first    *)
(* parseable one, and that one is the date returned.                       *)
ScanSpec(cs, n, Offered(_), Content(_)) ==
    LET ks == {k \in 1..n :
                  Offered(k) /\ \A j \in 1..(k - 1) :
                                    Offered(j) => Parse(Content(j)) = None}
    IN  /\ Len(cs) = Cardinality(ks)
        /\ \A k \in ks : cs[Cardinality({j \in ks : j <= k})].s = Content(k)
        /\ \A k \in ks :
               Parse(Content(k)) # None => pc = "done" /\ result = Parse(Content(k))

\* the first meta tag found by the k-th attribute, 0 when there is none
MetaFirst(k) == FindFirst(html.doc, LAMBDA e : e.tag = "meta" /\ e.key = MetaKeys[k])
MetaContent(k) == html.doc[MetaFirst(k)].s

\* the first attribute, in preference order, whose tag is present with
\* content that is neither empty nor blank; 0 when there is none
FirstNonBlankMeta ==
    LET hit(k) == MetaFirst(k) # 0 /\ html.doc[MetaFirst(k)].has
                  /\ Strip(MetaContent(k)) # ""
    IN  IF \E k \in 1..4 : hit(k)
        THEN CHOOSE k \in 1..4 : hit(k) /\ \A j \in 1..(k - 1) : ~hit(j)
        ELSE 0

(* C9 as stated: the first tag present with non-empty, non-blank content   *)
(* is the only candidate of the meta tier; no later attribute is           *)
(* consulted once such a tag exists.                                       *)
C9_Original ==
    Ran("meta") =>
        CallsOf("meta") =
            IF FirstNonBlankMeta = 0 THEN <<>>
            ELSE <<Call("meta", JStr(MetaContent(FirstNonBlankMeta)))>>

(* C9 as amended: the attributes are scanned in the order published_time,  *)
(* pubdate, date, datePublished; the first tag of each, when its content   *)
(* is not empty, is offered to the normalizer, and the first one that      *)
(* parses is returned; a later attribute is consulted when every earlier   *)
(* one is absent, empty, or did not parse (blank content included).        *)
C9_MetaScan ==
    Ran("meta") =>
        ScanSpec(CallsOf("meta"), 4,
                 LAMBDA k : MetaFirst(k) # 0 /\ html.doc[MetaFirst(k)].has
                            /\ MetaContent(k) # "",
                 LAMBDA k : MetaContent(k))

\* the published_time tag is present and unparseable, and pubdate wins
C9_Witness ==
    /\ Done /\ result # None
    /\ Len(calls) = 2 /\ calls[1].tier = "meta" /\ calls[2].tier = "meta"
    /\ MetaFirst(1) # 0 /\ calls[1].s = MetaContent(1) /\ Strip(calls[1].s) # ""
    /\ MetaFirst(2) # 0 /\ calls[2].s = MetaContent(2)

\* w occurs in t, letter case ignored
HasI(t, w) ==
    \E i \in 1..(Len(t) - Len(w) + 1) :
        \A j \in 1..Len(w) : LowerCh(Ch(t, i + j - 1)) = LowerCh(Ch(w, j))

SelTokens == <<"date", "published", "pubdate", "post-date", "article-date">>

\* the first element whose class or id holds one of the tokens, 0 if none
FirstTokenMatch ==
    FindFirst(html.doc, LAMBDA e : \E k \in 1..5 : HasI(e.cls, SelTokens[k])
                                                \/ HasI(e.id, SelTokens[k]))

(* C10 as stated: the candidate of the class/id tier is the text of the    *)
(* first element whose class or id holds a token, and only that text is    *)
(* offered to the normalizer.                                              *)
C10_Original ==
    Ran("attr") =>
        CallsOf("attr") =
            IF FirstTokenMatch = 0 THEN <<>>
            ELSE <<Call("attr", JStr(Strip(html.doc[FirstTokenMatch].text)))>>

\* the element token k selects: the first whose class holds the token,
\* and only when no class does, the first whose id holds it; 0 if none
TokenPick(k) ==
    LET byClass == {i \in 1..Len(html.doc) : HasI(html.doc[i].cls, SelTokens[k])}
        byId == {i \in 1..Len(html.doc) : HasI(html.doc[i].id, SelTokens[k])}
        least(S) == CHOOSE i \in S : \A j \in S : i <= j
    IN  IF byClass # {} THEN least(byClass)
        ELSE IF byId # {} THEN least(byId) ELSE 0

(* C10 as amended: for each token in the order date, published, pubdate,   *)
(* post-date, article-date the candidate is the text of the first element  *)
(* whose class holds the token or, when no class does, of the first whose  *)
(* id holds it; the candidates are offered in that order until one parses. *)
C10_TokenScan ==
    Ran("attr") =>
        ScanSpec(CallsOf("attr"), 5,
                 LAMBDA k : TokenPick(k) # 0,
                 LAMBDA k : Strip(html.doc[TokenPick(k)].text))

\* the first element matches by id, the second by class, and the second
\* element's date is returned
C10_Witness ==
    /\ Done /\ result # None /\ Len(html.doc) = 2
    /\ html.doc[1].cls = "" /\ HasI(html.doc[1].id, "date")
    /\ HasI(html.doc[2].cls, "date")
    /\ Parse(html.doc[1].text) \notin {None, result}
    /\ calls = <<Call("attr", JStr(html.doc[2].text))>>

\* the first JSON-LD script of the document, 0 when there is none
FirstLd == FindFirst(html.doc, LAMBDA e : e.tag = "script" /\ e.key = LdJson)
LdItems == html.doc[FirstLd].json.items

\* the date value of a list element: datePublished when that is a
\* non-empty string or a number, dateCreated otherwise
DateValue(item) == IF Truthy(item.dp) THEN item.dp ELSE item.dc

\* the element is an object carrying a parseable date
Carries(item) ==
    item.obj /\ DateValue(item).t = "str" /\ Parse(DateValue(item).s) # None

\* the first list element carrying a parseable date, 0 when there is none
FirstCarrier ==
    IF \E j \in 1..Len(LdItems) : Carries(LdItems[j])
    THEN CHOOSE j \in 1..Len(LdItems) :
             Carries(LdItems[j]) /\ \A a \in 1..(j - 1) : ~Carries(LdItems[a])
    ELSE 0

ListCase ==
    /\ Ran("jsonld") /\ FirstLd # 0
    /\ html.doc[FirstLd].json.k = "list" /\ FirstCarrier # 0

(* C6 as stated: when the first JSON-LD block is a list, the date of its   *)
(* first element carrying a parseable date is returned, whatever the       *)
(* elements before it are.                                                 *)
C6_Original ==
    ListCase => pc = "done" /\ result = Parse(DateValue(LdItems[FirstCarrier]).s)

\* the element is an object whose date value is absent, null, empty or a
\* string
Harmless(item) ==
    item.obj /\ (DateValue(item).t = "str" \/ ~Truthy(DateValue(item)))

(* What the list loop does guarantee (C6 restricted to lists of objects):  *)
(* the date of the first element carrying a parseable date is returned     *)
(* when every element before it is an object whose date value is absent,   *)
(* empty or an unparseable string.                                         *)
C6_ListScan ==
    (ListCase /\ \A a \in 1..(FirstCarrier - 1) : Harmless(LdItems[a]))
        => pc = "done" /\ result = Parse(DateValue(LdItems[FirstCarrier]).s)

\* a list whose first element has an unparseable datePublished and whose
\* second element has a dateCreated only; the second element's date wins
C6_Witness ==
    /\ ListCase /\ FirstCarrier = 2 /\ pc = "done"
    /\ LdItems[1].dp.t = "str" /\ LdItems[1].dp.s # ""
    /\ LdItems[2].dp.t = "absent"
    /\ result = Parse(LdItems[2].dc.s)
    /\ Len(calls) = 2

\* t[i..e-1] is a match of \b\d{1,2}\s(?:Jan|...|Dec)[a-z]*\s\d{4}\b
NamedAt(t, i, e) ==
    /\ IsDigit(Ch(t, i))
    /\ (i = 1 \/ ~IsWordCh(Ch(t, i - 1)))
    /\ (e > Len(t) \/ ~IsWordCh(Ch(t, e)))
    /\ \E n \in {1, 2}, k \in 0..(e - i) :
        /\ e = i + n + k + 9
        /\ \A a \in i..(i + n - 1) : IsDigit(Ch(t, a))
        /\ IsSpaceCh(Ch(t, i + n))
        /\ \E m \in 1..12 :
               \A a \in 1..3 : LowerCh(Ch(t, i + n + a)) = Ch(MonthAbbr[m], a)
        /\ \A a \in (i + n + 4)..(i + n + 3 + k) : IsLetter(Ch(t, a))
        /\ IsSpaceCh(Ch(t, i + n + 4 + k))
        /\ \A a \in (e - 4)..(e - 1) : IsDigit(Ch(t, a))

\* t[i..e-1] is a numeric date \b\d{1,2}/\d{1,2}/\d{4}\b
NumericAt(t, i, e) ==
    /\ IsDigit(Ch(t, i))
    /\ (i = 1 \/ ~IsWordCh(Ch(t, i - 1)))
    /\ (e > Len(t) \/ ~IsWordCh(Ch(t, e)))
    /\ \E n \in {1, 2}, k \in {1, 2} :
        /\ e = i + n + k + 6
        /\ \A a \in i..(i + n - 1) : IsDigit(Ch(t, a))
        /\ Ch(t, i + n) = "/"
        /\ \A a \in (i + n + 1)..(i + n + k) : IsDigit(Ch(t, a))
        /\ Ch(t, i + n + k + 1) = "/"
        /\ \A a \in (e - 4)..(e - 1) : IsDigit(Ch(t, a))

\* the leftmost match of M in t, "" when there is none
Leftmost(t, M(_, _, _)) ==
    LET ms == {m \in (1..Len(t)) \X (1..(Len(t) + 1)) : M(t, m[1], m[2])}
    IN  IF ms = {} THEN ""
        ELSE LET m == CHOOSE m \in ms : \A o \in ms : m[1] <= o[1]
             IN  Sub(t, m[1], m[2] - 1)

VisibleText == GetText(html.doc)

\* tiers 1 to 5 yielded nothing and the call has returned
FellToText == Done /\ Ran("text")

(* C7 as stated: when tiers 1 to 5 yield nothing, the first numeric D/M/Y  *)
(* or month-name date of the visible text is the candidate and its date is *)
(* returned.                                                               *)
C7_Original ==
    FellToText =>
        LET either(t, i, e) == NamedAt(t, i, e) \/ NumericAt(t, i, e)
            m == Leftmost(VisibleText, either)
        IN  m # "" => result # None /\ result = Parse(m)

(* C7 as amended: when tiers 1 to 5 yield nothing, the candidate is the    *)
(* first 'day month-name year' date of the visible text and its date is    *)
(* returned; a text without one (a numeric D/M/Y date or a bare year       *)
(* included) yields no candidate and the result is None.                   *)
C7_FreeText ==
    FellToText =>
        LET m == Leftmost(VisibleText, NamedAt)
        IN  IF m = "" THEN CallsOf("text") = <<>> /\ result = None
            ELSE /\ CallsOf("text") = <<Call("text", JStr(m))>>
                 /\ result = Parse(m)

\* a numeric date comes first in the visible text, a month-name date
\* second, and the month-name date is returned
C7_Witness ==
    /\ FellToText /\ result # None
    /\ Leftmost(VisibleText, NumericAt) # ""
    /\ Parse(Leftmost(VisibleText, NumericAt)) \notin {None, result}
    /\ CallsOf("text") = <<Call("text", JStr(Leftmost(VisibleText, NamedAt)))>>

---------------------------------------------------------------------------
(* Properties of classify_article, checked under SpecClass. *)

\* the text holds the key and one of the words, letter case ignored
Rule(t, key, words) == HasI(t, key) /\ \E w \in words : HasI(t, w)

IndiaRule == Rule(text, "india", {"positive", "success", "support", "development"})
ChinaRule == Rule(text, "china", {"sanction", "tariff", "ban", "conflict", "tension"})
PakistanRule ==
    Rule(text, "pakistan", {"polio", "terror", "crisis", "restriction", "attack"})

(* C3: classify_article returns exactly one of the four labels, the        *)
(* outcome of the first rule that matches in the order India, China,       *)
(* Pakistan, default; matching is case-insensitive containment, so a text  *)
(* with an India-positive and a China-negative signal is Pro-India and the *)
(* empty text is Miscellaneous.                                            *)
C3_FirstRule ==
    cpc = "done" =>
        /\ label \in {"Pro-India", "Anti-China", "Anti-Pakistan", "Miscellaneous"}
        /\ label = "Pro-India" <=> IndiaRule
        /\ label = "Anti-China" <=> (~IndiaRule /\ ChinaRule)
        /\ label = "Anti-Pakistan" <=> (~IndiaRule /\ ~ChinaRule /\ PakistanRule)
        /\ label = "Miscellaneous" <=> (~IndiaRule /\ ~ChinaRule /\ ~PakistanRule)
        /\ text = "" => label = "Miscellaneous"

\* a text with an India-positive and a China-negative signal, in capitals
\* in part, has been labelled Pro-India
C3_Witness ==
    /\ cpc = "done" /\ label = "Pro-India"
    /\ ChinaRule /\ ~Contains(text, "india")

---------------------------------------------------------------------------
(* Properties of process_dataframe, checked under SpecPipe. *)

\* the date and the label of the document behind a link, each computed on
\* its own
DateOf(link) ==
    LET d == extract_date(fetch_html(web[link]).html)
    IN  IF d = None THEN "" ELSE Strftime(d)
LabelOf(link) == classify_article(extract_article_text(fetch_html(web[link]).html).text)

(* C4: the output has as many rows as the input, in the input's order, and *)
(* the date and label on output row i are those of the link of input row   *)
(* i.                                                                      *)
C4_RowForRow ==
    ppc = "returned" =>
        /\ Len(df_new) = Len(df)
        /\ df_new[1] = df[1] \o <<"Extracted Date", "Classification">>
        /\ \A r \in 2..Len(df) :
               df_new[r] = df[r] \o <<DateOf(df[r][3]), LabelOf(df[r][3])>>

\* two rows with different links have got different dates and labels
C4_Witness ==
    /\ ppc = "returned" /\ Len(df) = 3
    /\ df[2][3] # df[3][3]
    /\ df_new[2][4] \notin {"", df_new[3][4]} /\ df_new[3][4] # ""
    /\ df_new[2][5] # df_new[3][5]

\* the fetch of data row i (row i + 1 of the table) fails
FetchFails(i) == web[df[i + 1][3]].raises

(* C5: one row never aborts the batch: a row whose fetch fails yields the  *)
(* empty date, Miscellaneous and similarity 0, and every row, the ones     *)
(* after a failing row included, gets the result of its own link.          *)
C5_NoAbort ==
    /\ ppc \in {"loop", "returned"}
    /\ ppc = "loop" => Len(dates) <= Len(df) - 1
    /\ ppc = "returned" => Len(dates) = Len(df) - 1
    /\ Len(labels) = Len(dates) /\ Len(sims) = Len(dates) /\ Len(htmls) = Len(dates)
    /\ \A i \in 1..Len(dates) :
        /\ FetchFails(i) =>
               /\ htmls[i] = Markup(<<>>)
               /\ dates[i] = "" /\ labels[i] = "Miscellaneous" /\ sims[i] = "0"
        /\ dates[i] = DateOf(df[i + 1][3])
        /\ labels[i] = LabelOf(df[i + 1][3])

\* the first row's fetch failed and the second row has its date and label
C5_Witness ==
    /\ ppc = "returned" /\ Len(dates) = 2
    /\ FetchFails(1) /\ ~FetchFails(2)
    /\ dates[1] = "" /\ labels[1] = "Miscellaneous"
    /\ dates[2] # "" /\ labels[2] # "Miscellaneous"

(* C8: the similarity score is advisory: two rows with the same fetched    *)
(* HTML get the same date and label, whatever their headlines and scores.  *)
C8_Advisory ==
    \A i, j \in 1..Len(dates) :
        htmls[i] = htmls[j] => dates[i] = dates[j] /\ labels[i] = labels[j]

\* two rows with the same HTML, one scored 0 and one not, with one date and
\* one label
C8_Witness ==
    /\ Len(dates) = 2 /\ htmls[1] = htmls[2]
    /\ df[2][2] # df[3][2]
    /\ sims[1] = "0" /\ sims[2] # "0"
    /\ dates[1] # "" /\ labels[1] # "Miscellaneous"

=============================================================================
